---- MODULE Spec2Model ----
(***************************************************************************)
(* The incremental visual-compatibility engine of                          *)
(* backend/services/similarity_service.py: the similarity matrix, the two  *)
(* frame caches, the persisted matrix file and the public operations on    *)
(* them (register_node, remove_node, the three queries,                    *)
(* reload_frame_cache) plus a process restart (module import).             *)
(*                                                                         *)
(* Scores and raw metric values are integers in units of 1/10000, so the   *)
(* score 0.75 is 7500 and round(x, 4) is a rounding to whole units.        *)
(***************************************************************************)
EXTENDS Integers, FiniteSets, Sequences, TLC

(***************************************************************************)
(* Bounds of the model.                                                    *)
(***************************************************************************)
\* number of engine calls (restarts included) in one behaviour
MaxCalls == 3
\* number of calls a later process life makes (WarmSpec)
MaxWarmCalls == 1
\* number of calls the threads make between them (LockSpec)
MaxThreadCalls == 2
\* number of calls made to the engine whose writes are followed (SaveSpec)
MaxSaveCalls == 3
\* number of requests the routers serve (RouterSpec)
MaxRequests == 2

\* node ids (opaque strings, uuid4 in the routers)
NodeIds == {"A", "B"}
Sides == {"first", "last"}
\* node ids of a later process life (WarmSpec): two known ones and a new one
WarmIds == {"A", "B", "C"}
\* every node id of the model
Ids == NodeIds \cup WarmIds

(***************************************************************************)
(* Program constants.                                                      *)
(***************************************************************************)
DEFAULT_THRESHOLD == 7500
\* one whole score, 1.0
Unit == 10000
\* cv2.imread returns None: the frame file is missing or cannot be decoded
Unreadable == 0
\* np.zeros((*size, 3)): the colour array load_color_frame_array gives for an unreadable file
Zeros == 0
\* dict.get(key) of an absent key
None == -1

\* the frame images: a frame file holds one of them or is unreadable
Images == {1, 2}
FileContents == {Unreadable} \cup Images
\* thresholds the router admits (ge=0.0, le=1.0): both ends and the default
Thresholds == {0, DEFAULT_THRESHOLD, Unit}

VARIABLES
    matrix,       \* _matrix: last-owner id -> (first-owner id -> score)
    frame_cache,  \* _frame_cache: <<node id, side>> -> grayscale array
    color_cache,  \* _color_cache: <<node id, side>> -> BGR array
    cache_file,   \* CACHE_FILE on disk: "absent", "corrupt" or the dumped matrix
    call,         \* the call made last: operation, arguments, outcome, returned value
    calls,        \* number of calls made so far
    registered,   \* ids whose last finished mutation was a register_node that returned
    events,       \* which kinds of event have happened since the engine was first started
    seen,         \* pairs (a, b) whose two features were cached during some scoring
                  \* loop run for a or for b since neither was removed
    last_seen,    \* pairs (a, b) whose two features were cached during the latest
                  \* scoring loop run for a or for b
    sample,       \* MetricSpec: the raw values given to _combined_score and its result
    lock,         \* LockSpec: the thread that holds _lock, or NoThread
    pc,           \* LockSpec: where each thread is in its call
    work,         \* LockSpec: the function and node id of each thread's call
    committed,    \* LockSpec: the matrix as the last finished call left it
    durable,      \* SaveSpec: the matrix that the last write_text that returned wrote
    registry      \* RouterSpec: REGISTRY_FILE on disk: its state and node id -> frames

\* what the specifications of the sequential engine leave alone
aux == <<sample, lock, pc, work, committed>>

\* what only SaveSpec and RouterSpec keep
store == <<durable, registry>>

vars == <<matrix, frame_cache, color_cache, cache_file, call, calls, registered, events,
          seen, last_seen, sample, lock, pc, work, committed, durable, registry>>

\* the threads of LockSpec, and no thread
Threads == {1, 2}
NoThread == 0

\* f"{node_id}_{side}"
Key(node_id, side) == <<node_id, side>>

\* the empty dict
EmptyDict == [k \in {} |-> 0]

\* dict.get(key) with default None
Get(d, k) == IF k \in DOMAIN d THEN d[k] ELSE None

\* dict[key] = value
Put(d, k, v) == [x \in DOMAIN d \cup {k} |-> IF x = k THEN v ELSE d[x]]

\* dict.pop(key, None)
Pop(d, k) == [x \in DOMAIN d \ {k} |-> d[x]]

(***************************************************************************)
(* frame_extractor: the two loaders.  A frame file holds an image or is    *)
(* unreadable; the grayscale and the colour array of image i are both      *)
(* written i (the colour array 0 is the all-zero array).                   *)
(***************************************************************************)
\* load_frame_array raises FileNotFoundError when cv2.imread returns None
LoadFrameRaises(file) == file = Unreadable

\* load_frame_array: the resized grayscale array of a readable file
load_frame_array(file) == file

\* load_color_frame_array: never raises, an unreadable file gives the zero array
load_color_frame_array(file) == IF file = Unreadable THEN Zeros ELSE file

(***************************************************************************)
(* The similarity metric.  _ssim and _hist_similarity are library calls    *)
(* (skimage, cv2) with values in [-1, 1]; the model fixes one symmetric    *)
(* table for each, with a negative value among them.                       *)
(***************************************************************************)
Abs(x) == IF x < 0 THEN -x ELSE x

\* max(0.0, x) without the clamp
NoClamp(x) == x

\* max(0.0, x)
Max0(x) == IF x > 0 THEN x ELSE 0

\* _ssim(a, b): 1.0 for equal arrays
Ssim(a, b) ==
    CASE Abs(a - b) = 0 -> Unit
      [] Abs(a - b) = 1 -> 5001
      [] OTHER -> -2500

\* _hist_similarity(a, b): 0.0 when an array is missing, else the mean channel correlation
HistSimilarity(a, b) ==
    IF a = None \/ b = None THEN 0
    ELSE CASE Abs(a - b) = 0 -> Unit
           [] Abs(a - b) = 1 -> 3753
           [] OTHER -> -1250

\* 0.6 * ssim_score + 0.4 * hist_score, in tenths of a unit
Weighted(ssim_score, hist_score) == 6 * ssim_score + 4 * hist_score

\* _combined_score on the raw values of _ssim and _hist_similarity, in tenths of a
\* unit; have_colors: both colour arrays are given
CombineRaw(ssim_raw, hist_raw, have_colors) ==
    LET ssim_score == Max0(ssim_raw)
        hist_score == IF have_colors THEN Max0(hist_raw) ELSE 0
    IN  Weighted(ssim_score, hist_score)

\* _combined_score, in tenths of a unit
CombinedScore(a_gray, b_gray, a_color, b_color) ==
    CombineRaw(Ssim(a_gray, b_gray), HistSimilarity(a_color, b_color),
               a_color # None /\ b_color # None)

\* round(score, 4): tenths of a unit to whole units, halves to the even neighbour
Round4(x) ==
    LET q == x \div 10
        r == x % 10
    IN  IF r > 5 \/ (r = 5 /\ q % 2 = 1) THEN q + 1 ELSE q

(***************************************************************************)
(* Persistence: json.dumps / json.loads of the matrix and CACHE_FILE.      *)
(***************************************************************************)
\* the set of (a, b) with an entry matrix[a][b]
Entries(m) == {p \in (DOMAIN m) \X Ids : p[2] \in DOMAIN m[p[1]]}

\* json.dumps(_matrix): the outer keys and one (outer key, inner key, number) per entry
Dumps(m) ==
    [state |-> "json",
     rows  |-> DOMAIN m,
     cells |-> {<<p[1], p[2], m[p[1]][p[2]]>> : p \in Entries(m)}]

\* json.loads(text)
Loads(text) ==
    [a \in text.rows |->
        [b \in {c[2] : c \in {d \in text.cells : d[1] = a}} |->
            (CHOOSE c \in text.cells : c[1] = a /\ c[2] = b)[3]]]

\* no file at CACHE_FILE
AbsentFile == [state |-> "absent", rows |-> {}, cells |-> {}]

\* a file that json.loads rejects (a write that failed part-way)
CorruptFile == [state |-> "corrupt", rows |-> {}, cells |-> {}]

\* _load_matrix: the matrix a starting process holds
LoadMatrix(file) == IF file.state = "json" THEN Loads(file) ELSE EmptyDict

\* what _save_matrix can do to the file: write it, fail to open it, fail while writing
SaveOutcomes == {"ok", "unwritable", "torn"}

\* _save_matrix: the file after the call
SaveMatrix(m, outcome, file) ==
    CASE outcome = "ok" -> Dumps(m)
      [] outcome = "unwritable" -> file
      [] OTHER -> CorruptFile

(***************************************************************************)
(* The engine's operations as functions of the state they read.  Each      *)
(* gives the state after the call and how the call ended.                  *)
(***************************************************************************)
After(m, fc, cc, file, outcome) ==
    [matrix |-> m, frame_cache |-> fc, color_cache |-> cc, cache_file |-> file,
     outcome |-> outcome]

\* how a call that reached _save_matrix ends
SaveResult(disk) == IF disk = "ok" THEN "returned" ELSE "OSError"

\* a scoring loop that fills only the new node's row, not its column
RegisterMatrixNewRowOnly(m, fc, cc, node_id) ==
    LET existing_ids == DOMAIN m \cup {node_id}
        row(a) == IF a \in DOMAIN m THEN m[a] ELSE EmptyDict
        scored(a) ==
            {b \in existing_ids :
                /\ b \notin DOMAIN row(a)
                /\ a = node_id
                /\ Get(fc, Key(a, "last")) # None
                /\ Get(fc, Key(b, "first")) # None}
    IN  [a \in existing_ids |->
            [b \in DOMAIN row(a) \cup scored(a) |->
                IF b \in DOMAIN row(a)
                THEN row(a)[b]
                ELSE Round4(CombinedScore(fc[Key(a, "last")], fc[Key(b, "first")],
                                          Get(cc, Key(a, "last")),
                                          Get(cc, Key(b, "first"))))]]

\* a scoring loop without the "already computed" skip: pairs of the node are scored again
RegisterMatrixRecompute(m, fc, cc, node_id) ==
    LET existing_ids == DOMAIN m \cup {node_id}
        row(a) == IF a \in DOMAIN m THEN m[a] ELSE EmptyDict
        scored(a) ==
            {b \in existing_ids :
                /\ a = node_id \/ b = node_id
                /\ Get(fc, Key(a, "last")) # None
                /\ Get(fc, Key(b, "first")) # None}
    IN  [a \in existing_ids |->
            [b \in DOMAIN row(a) \cup scored(a) |->
                IF b \notin scored(a)
                THEN row(a)[b]
                ELSE Round4(CombinedScore(fc[Key(a, "last")], fc[Key(b, "first")],
                                          Get(cc, Key(a, "last")),
                                          Get(cc, Key(b, "first"))))]]

\* a scoring loop that compares a's first frame with b's last frame
RegisterMatrixSwappedSides(m, fc, cc, node_id) ==
    LET existing_ids == DOMAIN m \cup {node_id}
        row(a) == IF a \in DOMAIN m THEN m[a] ELSE EmptyDict
        scored(a) ==
            {b \in existing_ids :
                /\ b \notin DOMAIN row(a)
                /\ a = node_id \/ b = node_id
                /\ Get(fc, Key(a, "first")) # None
                /\ Get(fc, Key(b, "last")) # None}
    IN  [a \in existing_ids |->
            [b \in DOMAIN row(a) \cup scored(a) |->
                IF b \in DOMAIN row(a)
                THEN row(a)[b]
                ELSE Round4(CombinedScore(fc[Key(a, "first")], fc[Key(b, "last")],
                                          Get(cc, Key(a, "first")),
                                          Get(cc, Key(b, "last"))))]]

\* a scoring loop without the "neither is new" skip: every missing pair is scored
RegisterMatrixAllPairs(m, fc, cc, node_id) ==
    LET existing_ids == DOMAIN m \cup {node_id}
        row(a) == IF a \in DOMAIN m THEN m[a] ELSE EmptyDict
        scored(a) ==
            {b \in existing_ids :
                /\ b \notin DOMAIN row(a)
                /\ Get(fc, Key(a, "last")) # None
                /\ Get(fc, Key(b, "first")) # None}
    IN  [a \in existing_ids |->
            [b \in DOMAIN row(a) \cup scored(a) |->
                IF b \in DOMAIN row(a)
                THEN row(a)[b]
                ELSE Round4(CombinedScore(fc[Key(a, "last")], fc[Key(b, "first")],
                                          Get(cc, Key(a, "last")),
                                          Get(cc, Key(b, "first"))))]]

\* register_node, the setdefault loop and the scoring loop: the matrix after them
RegisterMatrix(m, fc, cc, node_id) ==
    LET existing_ids == DOMAIN m \cup {node_id}
        row(a) == IF a \in DOMAIN m THEN m[a] ELSE EmptyDict
        scored(a) ==
            {b \in existing_ids :
                /\ b \notin DOMAIN row(a)
                /\ a = node_id \/ b = node_id
                /\ Get(fc, Key(a, "last")) # None
                /\ Get(fc, Key(b, "first")) # None}
    IN  [a \in existing_ids |->
            [b \in DOMAIN row(a) \cup scored(a) |->
                IF b \in DOMAIN row(a)
                THEN row(a)[b]
                ELSE Round4(CombinedScore(fc[Key(a, "last")], fc[Key(b, "first")],
                                          Get(cc, Key(a, "last")),
                                          Get(cc, Key(b, "first"))))]]

\* a registration that creates the rows before it loads the last frame
RegisterNodeRowsFirst(m, fc, cc, file, node_id, first, last, disk) ==
    IF LoadFrameRaises(first)
    THEN After(m, fc, cc, file, "FileNotFoundError")
    ELSE IF LoadFrameRaises(last)
    THEN After([a \in DOMAIN m \cup {node_id} |-> IF a \in DOMAIN m THEN m[a] ELSE EmptyDict],
               Put(fc, Key(node_id, "first"), load_frame_array(first)), cc, file,
               "FileNotFoundError")
    ELSE LET fc2 == Put(Put(fc, Key(node_id, "first"), load_frame_array(first)),
                        Key(node_id, "last"), load_frame_array(last))
             cc2 == Put(Put(cc, Key(node_id, "first"), load_color_frame_array(first)),
                        Key(node_id, "last"), load_color_frame_array(last))
             m2  == RegisterMatrix(m, fc2, cc2, node_id)
         IN  After(m2, fc2, cc2, SaveMatrix(m2, disk, file), SaveResult(disk))

\* register_node(node_id, first_frame_path, last_frame_path); first and last are
\* what the two frame files hold, disk is what _save_matrix meets
RegisterNode(m, fc, cc, file, node_id, first, last, disk) ==
    IF LoadFrameRaises(first)
    THEN After(m, fc, cc, file, "FileNotFoundError")
    ELSE IF LoadFrameRaises(last)
    THEN After(m, Put(fc, Key(node_id, "first"), load_frame_array(first)), cc, file,
               "FileNotFoundError")
    ELSE LET fc2 == Put(Put(fc, Key(node_id, "first"), load_frame_array(first)),
                        Key(node_id, "last"), load_frame_array(last))
             cc2 == Put(Put(cc, Key(node_id, "first"), load_color_frame_array(first)),
                        Key(node_id, "last"), load_color_frame_array(last))
             m2  == RegisterMatrix(m, fc2, cc2, node_id)
         IN  After(m2, fc2, cc2, SaveMatrix(m2, disk, file), SaveResult(disk))

\* a removal that pops the row and leaves the column entries
RemoveMatrixRowOnly(m, node_id) ==
    [a \in DOMAIN m \ {node_id} |-> m[a]]

\* a removal that empties the remaining rows instead of popping one column
RemoveMatrixClearsRows(m, node_id) ==
    [a \in DOMAIN m \ {node_id} |-> EmptyDict]

\* remove_node, the two pops on the matrix
RemoveMatrix(m, node_id) ==
    [a \in DOMAIN m \ {node_id} |-> Pop(m[a], node_id)]

\* a removal that leaves the node's colour arrays cached
RemoveNodeKeepsColor(m, fc, cc, file, node_id, disk) ==
    LET m2  == RemoveMatrix(m, node_id)
        fc2 == Pop(Pop(fc, Key(node_id, "first")), Key(node_id, "last"))
    IN  After(m2, fc2, cc, SaveMatrix(m2, disk, file), SaveResult(disk))

\* a removal that does not call _save_matrix
RemoveNodeNoSave(m, fc, cc, file, node_id, disk) ==
    LET m2  == RemoveMatrix(m, node_id)
        fc2 == Pop(Pop(fc, Key(node_id, "first")), Key(node_id, "last"))
        cc2 == Pop(Pop(cc, Key(node_id, "first")), Key(node_id, "last"))
    IN  After(m2, fc2, cc2, file, "returned")

\* remove_node(node_id)
RemoveNode(m, fc, cc, file, node_id, disk) ==
    LET m2  == RemoveMatrix(m, node_id)
        fc2 == Pop(Pop(fc, Key(node_id, "first")), Key(node_id, "last"))
        cc2 == Pop(Pop(cc, Key(node_id, "first")), Key(node_id, "last"))
    IN  After(m2, fc2, cc2, SaveMatrix(m2, disk, file), SaveResult(disk))

\* one "if key not in cache: try: cache[key] = load(path) except: pass" of reload_frame_cache
WarmGray(fc, k, file) ==
    IF k \in DOMAIN fc \/ LoadFrameRaises(file) THEN fc ELSE Put(fc, k, load_frame_array(file))

WarmColor(cc, k, file) ==
    IF k \in DOMAIN cc THEN cc ELSE Put(cc, k, load_color_frame_array(file))

\* a warm-up that runs the scoring loop for the node after loading
ReloadFrameCacheRescoring(m, fc, cc, file, node_id, first, last) ==
    LET fc2 == WarmGray(WarmGray(fc, Key(node_id, "first"), first),
                        Key(node_id, "last"), last)
        cc2 == WarmColor(WarmColor(cc, Key(node_id, "first"), first),
                         Key(node_id, "last"), last)
    IN  After(RegisterMatrix(m, fc2, cc2, node_id), fc2, cc2, file, "returned")

\* reload_frame_cache(node_id, first_frame_path, last_frame_path)
ReloadFrameCache(m, fc, cc, file, node_id, first, last) ==
    After(m,
          WarmGray(WarmGray(fc, Key(node_id, "first"), first), Key(node_id, "last"), last),
          WarmColor(WarmColor(cc, Key(node_id, "first"), first), Key(node_id, "last"), last),
          file, "returned")

\* a filter with > in place of >=
GetCompatibleTargetsStrict(m, source_id, threshold) ==
    LET row == IF source_id \in DOMAIN m THEN m[source_id] ELSE EmptyDict
    IN  {[node_id |-> nid, side |-> "left", score |-> row[nid]] :
            nid \in {n \in DOMAIN row : row[n] > threshold}}

\* get_compatible_targets(source_id, threshold): the returned list, as the set of its dicts
GetCompatibleTargets(m, source_id, threshold) ==
    LET row == IF source_id \in DOMAIN m THEN m[source_id] ELSE EmptyDict
    IN  {[node_id |-> nid, side |-> "left", score |-> row[nid]] :
            nid \in {n \in DOMAIN row : row[n] >= threshold}}

\* row.get(target_id, 0)
GetOr0(row, target_id) == IF target_id \in DOMAIN row THEN row[target_id] ELSE 0

\* get_compatible_sources(target_id, threshold): the returned list, as the set of its dicts
GetCompatibleSources(m, target_id, threshold) ==
    {[node_id |-> src_id, side |-> "right", score |-> GetOr0(m[src_id], target_id)] :
        src_id \in {s \in DOMAIN m : GetOr0(m[s], target_id) >= threshold}}

\* get_full_matrix(): a copy of every row
GetFullMatrix(m) == [k \in DOMAIN m |-> [b \in DOMAIN m[k] |-> m[k][b]]]

(***************************************************************************)
(* The state machine.                                                      *)
(***************************************************************************)
\* the record of a call
Called(op, node_id, first, last, threshold, outcome, result, dump) ==
    [op |-> op, node_id |-> node_id, first |-> first, last |-> last,
     threshold |-> threshold, outcome |-> outcome, result |-> result, dump |-> dump]

\* no REGISTRY_FILE
NoRegistry == [state |-> "absent", nodes |-> EmptyDict]

\* no call of _combined_score sampled
NoSample == [ssim |-> 0, hist |-> 0, have_colors |-> FALSE, score |-> None, stored |-> None]

\* a thread that is in no call
NoWork == [op |-> "", node_id |-> ""]

\* no sample taken, no thread in a call
AuxIdle ==
    /\ sample = NoSample
    /\ lock = NoThread
    /\ pc = [t \in Threads |-> "idle"]
    /\ work = [t \in Threads |-> NoWork]
    /\ committed = EmptyDict
    /\ durable = EmptyDict
    /\ registry = NoRegistry

\* the engine of a first start: no CACHE_FILE, so _load_matrix leaves _matrix = {}
Init ==
    /\ cache_file = AbsentFile
    /\ matrix = LoadMatrix(AbsentFile)
    /\ frame_cache = EmptyDict
    /\ color_cache = EmptyDict
    /\ call = Called("start", "", Unreadable, Unreadable, 0, "returned", {}, EmptyDict)
    /\ calls = 0
    /\ registered = {}
    /\ events = {}
    /\ seen = {}
    /\ last_seen = {}
    /\ AuxIdle

\* the engine's state becomes r's
Becomes(r) ==
    /\ matrix' = r.matrix
    /\ frame_cache' = r.frame_cache
    /\ color_cache' = r.color_cache
    /\ cache_file' = r.cache_file

\* the events a call's outcome adds
Outcome(outcome) ==
    CASE outcome = "FileNotFoundError" -> {"load_error"}
      [] outcome = "OSError" -> {"save_error"}
      [] OTHER -> {}

\* _save_matrix is reached, and the disk matters, only when both grayscale loads succeed
SavesReached(first, last) ==
    IF LoadFrameRaises(first) \/ LoadFrameRaises(last) THEN {"ok"} ELSE SaveOutcomes

\* the pairs with node_id as row or as column
Involving(pairs, node_id) == {p \in pairs : p[1] = node_id \/ p[2] = node_id}

\* the pairs of the scoring loop of register_node(node_id) that find both a's last
\* and b's first grayscale array in the cache (lines 88-93)
Scorable(m, fc, node_id) ==
    {p \in Involving((DOMAIN m \cup {node_id}) \X (DOMAIN m \cup {node_id}), node_id) :
        Key(p[1], "last") \in DOMAIN fc /\ Key(p[2], "first") \in DOMAIN fc}

\* the scoring history after the register_node call recorded in call': the loop ran
\* unless a grayscale load raised
ScoringRecorded ==
    IF call'.outcome = "FileNotFoundError"
    THEN UNCHANGED <<seen, last_seen>>
    ELSE LET scorable == Scorable(matrix, frame_cache', call'.node_id)
         IN  /\ seen' = seen \cup scorable
             /\ last_seen' = (last_seen \ Involving(last_seen, call'.node_id))
                                 \cup scorable

\* the scoring history after the remove_node call recorded in call'
ScoringForgotten ==
    /\ seen' = seen \ Involving(seen, call'.node_id)
    /\ last_seen' = last_seen \ Involving(last_seen, call'.node_id)

\* a register_node call by a caller that draws ids, frame files and its call budget
RegisterNodeCall(ids, files, max) ==
    /\ calls < max
    /\ \E node_id \in ids, first \in files, last \in files :
        \E disk \in SavesReached(first, last) :
          \E r \in {RegisterNode(matrix, frame_cache, color_cache, cache_file,
                                  node_id, first, last, disk)} :
              /\ Becomes(r)
              /\ call' = Called("register_node", node_id, first, last, 0, r.outcome,
                                {}, EmptyDict)
              /\ registered' = IF r.outcome = "returned"
                               THEN registered \cup {node_id}
                               ELSE registered
              /\ events' = events \cup Outcome(r.outcome)
    /\ calls' = calls + 1
    /\ UNCHANGED aux

\* the scoring history is kept where the engine has earlier lives (WarmSpec)
register_node ==
    /\ RegisterNodeCall(NodeIds, FileContents, MaxCalls)
    /\ UNCHANGED <<seen, last_seen>>
    /\ UNCHANGED store

\* a remove_node call
RemoveNodeCall(ids, max) ==
    /\ calls < max
    /\ \E node_id \in ids, disk \in SaveOutcomes :
          \E r \in {RemoveNode(matrix, frame_cache, color_cache, cache_file, node_id, disk)} :
              /\ Becomes(r)
              /\ call' = Called("remove_node", node_id, Unreadable, Unreadable, 0,
                                r.outcome, {}, EmptyDict)
              /\ registered' = registered \ {node_id}
              /\ events' = events \cup {"remove"} \cup Outcome(r.outcome)
    /\ calls' = calls + 1
    /\ UNCHANGED aux

remove_node ==
    /\ RemoveNodeCall(NodeIds, MaxCalls)
    /\ UNCHANGED <<seen, last_seen>>
    /\ UNCHANGED store

\* a reload_frame_cache call
ReloadFrameCacheCall(ids, files, max) ==
    /\ calls < max
    /\ \E node_id \in ids, first \in files, last \in files :
          \E r \in {ReloadFrameCache(matrix, frame_cache, color_cache, cache_file,
                                      node_id, first, last)} :
              /\ Becomes(r)
              /\ call' = Called("reload_frame_cache", node_id, first, last, 0, r.outcome,
                                {}, EmptyDict)
    /\ calls' = calls + 1
    /\ UNCHANGED <<registered, events, seen, last_seen>>
    /\ UNCHANGED aux
    /\ UNCHANGED store

reload_frame_cache == ReloadFrameCacheCall(NodeIds, FileContents, MaxCalls)

get_compatible_targets ==
    /\ calls < MaxCalls
    /\ \E source_id \in NodeIds, threshold \in Thresholds :
          call' = Called("get_compatible_targets", source_id, Unreadable, Unreadable,
                         threshold, "returned",
                         GetCompatibleTargets(matrix, source_id, threshold), EmptyDict)
    /\ calls' = calls + 1
    /\ UNCHANGED <<matrix, frame_cache, color_cache, cache_file, registered, events,
                   seen, last_seen>>
    /\ UNCHANGED aux
    /\ UNCHANGED store

get_compatible_sources ==
    /\ calls < MaxCalls
    /\ \E target_id \in NodeIds, threshold \in Thresholds :
          call' = Called("get_compatible_sources", target_id, Unreadable, Unreadable,
                         threshold, "returned",
                         GetCompatibleSources(matrix, target_id, threshold), EmptyDict)
    /\ calls' = calls + 1
    /\ UNCHANGED <<matrix, frame_cache, color_cache, cache_file, registered, events,
                   seen, last_seen>>
    /\ UNCHANGED aux
    /\ UNCHANGED store

GetFullMatrixCall(max) ==
    /\ calls < max
    /\ call' = Called("get_full_matrix", "", Unreadable, Unreadable, 0, "returned", {},
                      GetFullMatrix(matrix))
    /\ calls' = calls + 1
    /\ UNCHANGED <<matrix, frame_cache, color_cache, cache_file, registered, events,
                   seen, last_seen>>
    /\ UNCHANGED aux
    /\ UNCHANGED store

get_full_matrix == GetFullMatrixCall(MaxCalls)

\* the process ends and a new one imports the module: the caches start empty and
\* _load_matrix() reads CACHE_FILE
Restart(max) ==
    /\ calls < max
    /\ matrix' = LoadMatrix(cache_file)
    /\ frame_cache' = EmptyDict
    /\ color_cache' = EmptyDict
    /\ call' = Called("restart", "", Unreadable, Unreadable, 0, "returned", {}, EmptyDict)
    /\ calls' = calls + 1
    /\ events' = events \cup {"restart"}
    /\ UNCHANGED <<cache_file, registered, seen, last_seen>>
    /\ UNCHANGED aux
    /\ UNCHANGED store

restart == Restart(MaxCalls)

Next ==
    \/ register_node
    \/ remove_node
    \/ reload_frame_cache
    \/ get_compatible_targets
    \/ get_compatible_sources
    \/ get_full_matrix
    \/ restart

Spec == Init /\ [][Next]_vars

(***************************************************************************)
(* A later process life.  Earlier ones registered A and then B from        *)
(* readable frames, with or without a restart between the two.  The        *)
(* process has now started again and warm_similarity_cache has called      *)
(* reload_frame_cache for A and for B, each frame file readable or not.    *)
(* The engine then takes registrations, removals, warm-ups and restarts    *)
(* for A, B and a new node C.                                              *)
(***************************************************************************)
\* the frame files (first, last) of the two nodes of the earlier lives
FramesOfA == <<1, 2>>
FramesOfB == <<2, 1>>

\* what a frame file gives when it is readable or not
FileNow(image, readable) == IF readable THEN image ELSE Unreadable

\* module import and lifespan: empty caches, the matrix read from the file, then
\* reload_frame_cache for every id of warm, a function from ids to the two frame files
Started(r, warm) ==
    LET s0 == After(LoadMatrix(r.cache_file), EmptyDict, EmptyDict, r.cache_file, "returned")
        sA == IF "A" \in DOMAIN warm
              THEN ReloadFrameCache(s0.matrix, s0.frame_cache, s0.color_cache, s0.cache_file,
                                    "A", warm["A"][1], warm["A"][2])
              ELSE s0
    IN  IF "B" \in DOMAIN warm
        THEN ReloadFrameCache(sA.matrix, sA.frame_cache, sA.color_cache, sA.cache_file,
                              "B", warm["B"][1], warm["B"][2])
        ELSE sA

\* the warm-ups of a start: for each id, which of its two frame files are readable
WarmUps(ids) ==
    [ids -> {<<FileNow(1, f), FileNow(1, l)>> : f \in BOOLEAN, l \in BOOLEAN}]

\* the frame files of the ids as the warm-up w finds them
FilesAt(w) ==
    [n \in DOMAIN w |->
        LET frames == IF n = "A" THEN FramesOfA ELSE FramesOfB
        IN  <<IF w[n][1] = Unreadable THEN Unreadable ELSE frames[1],
              IF w[n][2] = Unreadable THEN Unreadable ELSE frames[2]>>]

\* register_node("A", ...), maybe a restart, register_node("B", ...), a restart
EarlierLives(restart_between, w1, w2) ==
    LET r1 == RegisterNode(EmptyDict, EmptyDict, EmptyDict, AbsentFile, "A",
                           FramesOfA[1], FramesOfA[2], "ok")
        s1 == IF restart_between THEN Started(r1, FilesAt(w1)) ELSE r1
        r2 == RegisterNode(s1.matrix, s1.frame_cache, s1.color_cache, s1.cache_file,
                           "B", FramesOfB[1], FramesOfB[2], "ok")
    IN  [state   |-> Started(r2, FilesAt(w2)),
         scored2 |-> Scorable(s1.matrix, r2.frame_cache, "B")]

WarmInit ==
    \E restart_between \in BOOLEAN, w1 \in WarmUps({"A"}), w2 \in WarmUps({"A", "B"}) :
        LET e == EarlierLives(restart_between, w1, w2)
        IN  /\ matrix = e.state.matrix
            /\ frame_cache = e.state.frame_cache
            /\ color_cache = e.state.color_cache
            /\ cache_file = e.state.cache_file
            /\ call = Called("reload_frame_cache", "B", FilesAt(w2)["B"][1],
                             FilesAt(w2)["B"][2], 0, "returned", {}, EmptyDict)
            /\ calls = 0
            /\ registered = {"A", "B"}
            /\ events = {"restart"}
            /\ seen = {<<"A", "A">>} \cup e.scored2
            /\ last_seen = {<<"A", "A">>} \cup e.scored2
            /\ AuxIdle

warm_register_node ==
    /\ RegisterNodeCall(WarmIds, FileContents, MaxWarmCalls)
    /\ ScoringRecorded
    /\ UNCHANGED store

warm_remove_node ==
    /\ RemoveNodeCall(WarmIds, MaxWarmCalls)
    /\ ScoringForgotten
    /\ UNCHANGED store

warm_reload_frame_cache == ReloadFrameCacheCall(WarmIds, FileContents, MaxWarmCalls)

warm_restart == Restart(MaxWarmCalls)

WarmNext ==
    \/ warm_register_node
    \/ warm_remove_node
    \/ warm_reload_frame_cache
    \/ warm_restart

WarmSpec == WarmInit /\ [][WarmNext]_vars

(***************************************************************************)
(* The engine with its writes followed: durable is the matrix that the     *)
(* last _save_matrix that returned wrote to CACHE_FILE.                    *)
(***************************************************************************)
\* the matrix last written in full, after the mutation recorded in call'
DurableRecorded ==
    durable' = IF call'.outcome = "returned" THEN matrix' ELSE durable

SaveInit ==
    /\ Init

save_register_node ==
    /\ RegisterNodeCall(NodeIds, FileContents, MaxSaveCalls)
    /\ DurableRecorded
    /\ UNCHANGED <<seen, last_seen, registry>>

save_remove_node ==
    /\ RemoveNodeCall(NodeIds, MaxSaveCalls)
    /\ DurableRecorded
    /\ UNCHANGED <<seen, last_seen, registry>>

save_get_full_matrix == GetFullMatrixCall(MaxSaveCalls)

save_restart == Restart(MaxSaveCalls)

SaveNext ==
    \/ save_register_node
    \/ save_remove_node
    \/ save_get_full_matrix
    \/ save_restart

SaveSpec == SaveInit /\ [][SaveNext]_vars

(***************************************************************************)
(* The routers of routers/videos.py over the engine: upload_videos and     *)
(* delete_node keep the node registry in REGISTRY_FILE and call            *)
(* register_node and remove_node.  A request is served whole.              *)
(***************************************************************************)
\* the uuid4 values the requests draw from
RouterIds == {"A", "B", "C"}

\* json.loads(REGISTRY_FILE.read_text()) raises
LoadRegistryRaises(reg) == reg.state = "corrupt"

\* _load_registry: node id -> the frame files of the node
LoadRegistry(reg) == reg.nodes

\* _save_registry: REGISTRY_FILE after write_text
SaveRegistry(nodes, outcome, reg) ==
    CASE outcome = "ok" -> [state |-> "json", nodes |-> nodes]
      [] outcome = "unwritable" -> reg
      [] OTHER -> [state |-> "corrupt", nodes |-> EmptyDict]

\* an uploaded clip: whether extract_frames returns, and what the two frame files
\* give to load_frame_array afterwards
Clips ==
    {[extracts |-> FALSE, first |-> Unreadable, last |-> Unreadable],
     [extracts |-> TRUE, first |-> 1, last |-> 2],
     [extracts |-> TRUE, first |-> 2, last |-> Unreadable]}

\* the files of a request: one clip or two
Uploads == {<<c>> : c \in Clips} \cup {<<c, d>> : c \in Clips, d \in Clips}

\* ids that nothing holds: a uuid4 is new
Unused(m, fc, reg) ==
    {i \in RouterIds :
        /\ i \notin DOMAIN reg.nodes
        /\ i \notin DOMAIN m
        /\ \A a \in DOMAIN m : i \notin DOMAIN m[a]
        /\ \A side \in Sides : Key(i, side) \notin DOMAIN fc}

\* the state of the engine and the registry, and how the request ended
Served(r, reg, outcome) ==
    [matrix |-> r.matrix, frame_cache |-> r.frame_cache, color_cache |-> r.color_cache,
     cache_file |-> r.cache_file, registry |-> reg, outcome |-> outcome]

\* upload_videos, lines 85-87: register_node for created[k], created[k+1], ...; an
\* exception of register_node ends the request
RECURSIVE RegisterCreated(_, _, _, _, _, _)
RegisterCreated(r, reg, ids, files, disks, k) ==
    IF k > Len(files)
    THEN Served(r, reg, "returned")
    ELSE LET n == RegisterNode(r.matrix, r.frame_cache, r.color_cache, r.cache_file,
                               ids[k], files[k].first, files[k].last, disks[k])
         IN  IF n.outcome = "returned"
             THEN RegisterCreated(n, reg, ids, files, disks, k + 1)
             ELSE Served(n, reg, n.outcome)

\* upload_videos(files): ids are the uuid4 values drawn, reg_disk and disks what
\* _save_registry and each _save_matrix meet
UploadVideos(r, reg, ids, files, reg_disk, disks) ==
    LET nodes == [i \in DOMAIN LoadRegistry(reg) \cup {ids[k] : k \in 1..Len(files)} |->
                    IF i \in DOMAIN LoadRegistry(reg)
                    THEN LoadRegistry(reg)[i]
                    ELSE LET k == CHOOSE j \in 1..Len(files) : ids[j] = i
                         IN  <<files[k].first, files[k].last>>]
    IN  IF LoadRegistryRaises(reg)
        THEN Served(r, reg, "JSONDecodeError")
        ELSE IF \E k \in 1..Len(files) : ~files[k].extracts
        THEN Served(r, reg, "HTTPException")
        ELSE IF reg_disk # "ok"
        THEN Served(r, SaveRegistry(nodes, reg_disk, reg), "OSError")
        ELSE RegisterCreated(r, SaveRegistry(nodes, reg_disk, reg), ids, files, disks, 1)

\* delete_node(node_id)
DeleteNode(r, reg, node_id, reg_disk, disk) ==
    LET nodes == [i \in DOMAIN LoadRegistry(reg) \ {node_id} |-> LoadRegistry(reg)[i]]
    IN  IF LoadRegistryRaises(reg)
        THEN Served(r, reg, "JSONDecodeError")
        ELSE IF node_id \notin DOMAIN LoadRegistry(reg)
        THEN Served(r, reg, "HTTPException")
        ELSE IF reg_disk # "ok"
        THEN Served(r, SaveRegistry(nodes, reg_disk, reg), "OSError")
        ELSE LET n == RemoveNode(r.matrix, r.frame_cache, r.color_cache, r.cache_file,
                                 node_id, disk)
             IN  Served(n, SaveRegistry(nodes, reg_disk, reg), n.outcome)

RouterInit ==
    /\ Init

\* what a request leaves alone
unserved == <<registered, events, seen, last_seen, durable>>

\* the engine and the registry become s's
Serves(op, node_id, s) ==
    /\ Becomes(s)
    /\ registry' = s.registry
    /\ call' = Called(op, node_id, Unreadable, Unreadable, 0, s.outcome, {}, EmptyDict)
    /\ calls' = calls + 1
    /\ UNCHANGED unserved
    /\ UNCHANGED aux

upload_videos ==
    /\ calls < MaxRequests
    /\ \E files \in Uploads :
         \E ids \in [1..Len(files) -> Unused(matrix, frame_cache, registry)] :
            /\ \A j \in DOMAIN ids, k \in DOMAIN ids : ids[j] = ids[k] => j = k
            /\ \E reg_disk \in SaveOutcomes, disks \in [1..Len(files) -> SaveOutcomes] :
                  Serves("upload_videos", ids[1],
                         UploadVideos(After(matrix, frame_cache, color_cache, cache_file,
                                            "returned"),
                                      registry, ids, files, reg_disk, disks))

delete_node ==
    /\ calls < MaxRequests
    /\ \E node_id \in RouterIds, reg_disk \in SaveOutcomes, disk \in SaveOutcomes :
          Serves("delete_node", node_id,
                 DeleteNode(After(matrix, frame_cache, color_cache, cache_file, "returned"),
                            registry, node_id, reg_disk, disk))

RouterNext ==
    \/ upload_videos
    \/ delete_node

RouterSpec == RouterInit /\ [][RouterNext]_vars

(***************************************************************************)
(* The metric alone: _combined_score applied to raw values of the          *)
(* structural measure and of the colour correlation, and the rounding of   *)
(* line 95 applied to its result.                                          *)
(***************************************************************************)
\* raw values in [-1, 1]: both ends, zero and its neighbours, values in between
RawValues == {-Unit, -2500, -1, 0, 1, 3753, 5001, Unit}

\* the state of the engine: everything but sample
engine == <<matrix, frame_cache, color_cache, cache_file, call, calls, registered,
            events, seen, last_seen, lock, pc, work, committed, durable, registry>>

MetricInit ==
    /\ cache_file = AbsentFile
    /\ matrix = EmptyDict
    /\ frame_cache = EmptyDict
    /\ color_cache = EmptyDict
    /\ call = Called("start", "", Unreadable, Unreadable, 0, "returned", {}, EmptyDict)
    /\ calls = 0
    /\ registered = {}
    /\ events = {}
    /\ seen = {}
    /\ last_seen = {}
    /\ lock = NoThread
    /\ pc = [t \in Threads |-> "idle"]
    /\ work = [t \in Threads |-> NoWork]
    /\ committed = EmptyDict
    /\ durable = EmptyDict
    /\ registry = NoRegistry
    /\ sample \in [ssim : RawValues, hist : RawValues, have_colors : BOOLEAN,
                    score : {None}, stored : {None}]

\* score = _combined_score(...); round(score, 4)
combined_score ==
    /\ sample.score = None
    /\ sample' = [sample EXCEPT
                    !.score = CombineRaw(sample.ssim, sample.hist, sample.have_colors),
                    !.stored = Round4(CombineRaw(sample.ssim, sample.hist,
                                                 sample.have_colors))]
    /\ UNCHANGED engine

MetricNext == combined_score

MetricSpec == MetricInit /\ [][MetricNext]_vars

(***************************************************************************)
(* The engine under threads.  Every public function runs its body inside   *)
(* "with _lock:"; a thread calls, waits for the lock, runs the body one     *)
(* statement group at a time and leaves the with block, by return or by     *)
(* exception.  The arguments other than the node id are drawn by the step   *)
(* that first reads them.                                                  *)
(***************************************************************************)
Mutations == {"register_node", "remove_node"}
Queries == {"get_compatible_targets", "get_compatible_sources", "get_full_matrix"}
Ops == Mutations \cup {"reload_frame_cache"} \cup Queries

\* a lock that any thread can take at any time
AcquirableAlways(owner, t) == TRUE

\* _lock.acquire() by t returns: an RLock is free, or held by t itself
Acquirable(owner, t) == owner = NoThread \/ owner = t

\* a lock released by hand on the return path only
ReleasedOnReturn(outcome, t) == IF outcome = "returned" THEN NoThread ELSE t

\* the owner of _lock after t leaves "with _lock:", by return or by exception
Released(outcome, t) == NoThread

\* the first statement group of each function's body
Entry(op) ==
    CASE op = "register_node" -> "loads"
      [] op = "remove_node" -> "pop_row"
      [] op = "reload_frame_cache" -> "warm"
      [] OTHER -> "read"

\* the engine after no registration, after A's, or after A's and B's
LockInit ==
    /\ \E known \in {{}, {"A"}, {"A", "B"}} :
         LET a == RegisterNode(EmptyDict, EmptyDict, EmptyDict, AbsentFile,
                               "A", FramesOfA[1], FramesOfA[2], "ok")
             r == CASE known = {} ->
                           After(EmptyDict, EmptyDict, EmptyDict, AbsentFile, "returned")
                    [] known = {"A"} -> a
                    [] OTHER ->
                           RegisterNode(a.matrix, a.frame_cache, a.color_cache,
                                        a.cache_file, "B", FramesOfB[1], FramesOfB[2],
                                        "ok")
         IN  /\ matrix = r.matrix
             /\ frame_cache = r.frame_cache
             /\ color_cache = r.color_cache
             /\ cache_file = r.cache_file
             /\ committed = r.matrix
             /\ durable = r.matrix
             /\ registered = DOMAIN r.matrix
    /\ call = Called("start", "", Unreadable, Unreadable, 0, "returned", {}, EmptyDict)
    /\ calls = 0
    /\ events = {}
    /\ seen = {}
    /\ last_seen = {}
    /\ sample = NoSample
    /\ lock = NoThread
    /\ pc = [t \in Threads |-> "idle"]
    /\ work = [t \in Threads |-> NoWork]
    /\ registry = NoRegistry

\* what no step of a thread touches
history == <<registered, seen, last_seen, sample, durable, registry>>

\* t calls a function; behind is the owner of the lock at that moment
Call(t, ids, max) ==
    /\ pc[t] = "idle"
    /\ calls < max
    /\ \E op \in Ops, node_id \in ids :
          work' = [work EXCEPT ![t] = [op |-> op, node_id |-> node_id, behind |-> lock]]
    /\ pc' = [pc EXCEPT ![t] = "waiting"]
    /\ calls' = calls + 1
    /\ UNCHANGED <<matrix, frame_cache, color_cache, cache_file, call, events, lock,
                   committed>>
    /\ UNCHANGED history

\* with _lock: t enters the body
Acquire(t) ==
    /\ pc[t] = "waiting"
    /\ Acquirable(lock, t)
    /\ lock' = t
    /\ pc' = [pc EXCEPT ![t] = Entry(work[t].op)]
    /\ UNCHANGED <<matrix, frame_cache, color_cache, cache_file, call, calls, events,
                   work, committed>>
    /\ UNCHANGED history

\* t leaves the with block
Leave(t, outcome, result) ==
    /\ lock' = Released(outcome, t)
    /\ pc' = [pc EXCEPT ![t] = "idle"]
    /\ work' = [work EXCEPT ![t] = NoWork]
    /\ call' = Called(work[t].op, work[t].node_id, Unreadable, Unreadable, 0, outcome,
                      result, EmptyDict)
    /\ events' = events \cup Outcome(outcome)
    /\ committed' = IF work[t].op \in Mutations THEN matrix' ELSE committed
    /\ UNCHANGED calls
    /\ UNCHANGED history

\* t stays in the body and goes on to the statement group at
Goto(t, at) ==
    /\ pc' = [pc EXCEPT ![t] = at]
    /\ UNCHANGED <<call, calls, events, lock, work, committed>>
    /\ UNCHANGED history

\* register_node, lines 69-72
LoadFrames(t, files) ==
    /\ pc[t] = "loads"
    /\ \E first \in files, last \in files :
         LET node_id == work[t].node_id
             fc1 == Put(frame_cache, Key(node_id, "first"), load_frame_array(first))
             fc2 == Put(fc1, Key(node_id, "last"), load_frame_array(last))
             cc2 == Put(Put(color_cache, Key(node_id, "first"),
                            load_color_frame_array(first)),
                        Key(node_id, "last"), load_color_frame_array(last))
         IN  IF LoadFrameRaises(first)
             THEN /\ UNCHANGED <<matrix, frame_cache, color_cache, cache_file>>
                  /\ Leave(t, "FileNotFoundError", {})
             ELSE IF LoadFrameRaises(last)
             THEN /\ frame_cache' = fc1
                  /\ UNCHANGED <<matrix, color_cache, cache_file>>
                  /\ Leave(t, "FileNotFoundError", {})
             ELSE /\ frame_cache' = fc2
                  /\ color_cache' = cc2
                  /\ UNCHANGED <<matrix, cache_file>>
                  /\ Goto(t, "rows")

\* register_node, lines 74-79
Rows(t) ==
    /\ pc[t] = "rows"
    /\ matrix' = [a \in DOMAIN matrix \cup {work[t].node_id} |->
                     IF a \in DOMAIN matrix THEN matrix[a] ELSE EmptyDict]
    /\ UNCHANGED <<frame_cache, color_cache, cache_file>>
    /\ Goto(t, "score")

\* the pairs the scoring loop of register_node(node_id) has still to write
Pending(m, fc, node_id) ==
    {p \in Scorable(m, fc, node_id) : p[1] \in DOMAIN m /\ p[2] \notin DOMAIN m[p[1]]}

\* register_node, lines 82-95: one pass of the loop body that writes an entry
Score(t) ==
    /\ pc[t] = "score"
    /\ \E p \in Pending(matrix, frame_cache, work[t].node_id) :
          matrix' = [matrix EXCEPT ![p[1]] =
                        Put(@, p[2],
                            Round4(CombinedScore(frame_cache[Key(p[1], "last")],
                                                 frame_cache[Key(p[2], "first")],
                                                 Get(color_cache, Key(p[1], "last")),
                                                 Get(color_cache, Key(p[2], "first")))))]
    /\ UNCHANGED <<frame_cache, color_cache, cache_file>>
    /\ Goto(t, "score")

\* register_node, line 97, after the loop has run out
SaveRegistered(t, disks) ==
    /\ pc[t] = "score"
    /\ Pending(matrix, frame_cache, work[t].node_id) = {}
    /\ \E disk \in disks :
          /\ cache_file' = SaveMatrix(matrix, disk, cache_file)
          /\ UNCHANGED <<matrix, frame_cache, color_cache>>
          /\ Leave(t, SaveResult(disk), {})

\* remove_node, line 103
PopRow(t) ==
    /\ pc[t] = "pop_row"
    /\ matrix' = [a \in DOMAIN matrix \ {work[t].node_id} |-> matrix[a]]
    /\ UNCHANGED <<frame_cache, color_cache, cache_file>>
    /\ Goto(t, "pop_columns")

\* remove_node, lines 104-105
PopColumns(t) ==
    /\ pc[t] = "pop_columns"
    /\ matrix' = [a \in DOMAIN matrix |-> Pop(matrix[a], work[t].node_id)]
    /\ UNCHANGED <<frame_cache, color_cache, cache_file>>
    /\ Goto(t, "pop_caches")

\* remove_node, lines 106-110
SaveRemoved(t, disks) ==
    /\ pc[t] = "pop_caches"
    /\ \E disk \in disks :
         LET node_id == work[t].node_id
         IN  /\ frame_cache' = Pop(Pop(frame_cache, Key(node_id, "first")),
                                   Key(node_id, "last"))
             /\ color_cache' = Pop(Pop(color_cache, Key(node_id, "first")),
                                   Key(node_id, "last"))
             /\ cache_file' = SaveMatrix(matrix, disk, cache_file)
             /\ UNCHANGED matrix
             /\ Leave(t, SaveResult(disk), {})

\* reload_frame_cache, lines 154-173
Warm(t, files) ==
    /\ pc[t] = "warm"
    /\ \E first \in files, last \in files :
         LET r == ReloadFrameCache(matrix, frame_cache, color_cache, cache_file,
                                   work[t].node_id, first, last)
         IN  /\ Becomes(r)
             /\ Leave(t, r.outcome, {})

\* the body of a query function
Read(t, thresholds) ==
    /\ pc[t] = "read"
    /\ \E threshold \in thresholds :
         Leave(t, "returned",
               CASE work[t].op = "get_compatible_targets" ->
                        GetCompatibleTargets(matrix, work[t].node_id, threshold)
                 [] work[t].op = "get_compatible_sources" ->
                        GetCompatibleSources(matrix, work[t].node_id, threshold)
                 [] OTHER -> {GetFullMatrix(matrix)})
    /\ UNCHANGED <<matrix, frame_cache, color_cache, cache_file>>

\* a step of t inside the with block
Body(t, files, disks, thresholds) ==
    \/ LoadFrames(t, files)
    \/ Rows(t)
    \/ Score(t)
    \/ SaveRegistered(t, disks)
    \/ PopRow(t)
    \/ PopColumns(t)
    \/ SaveRemoved(t, disks)
    \/ Warm(t, files)
    \/ Read(t, thresholds)

LockNext ==
    \E t \in Threads :
        \/ Call(t, NodeIds, MaxThreadCalls)
        \/ Acquire(t)
        \/ Body(t, FileContents, SaveOutcomes, Thresholds)

LockSpec == LockInit /\ [][LockNext]_vars

(***************************************************************************)
(* The same threads under fair scheduling.  How a call ends and whether    *)
(* the lock is given up do not depend on which image a frame file holds    *)
(* or on the threshold, so the threads here work on one node, find a frame *)
(* file unreadable or holding image 1, and query at the default threshold. *)
(***************************************************************************)
FairIds == {"B"}
FairFiles == {Unreadable, 1}
FairThresholds == {DEFAULT_THRESHOLD}

FairBody(t) == Body(t, FairFiles, SaveOutcomes, FairThresholds)

FairNext == \E t \in Threads : Call(t, FairIds, MaxThreadCalls) \/ Acquire(t) \/ FairBody(t)

\* a thread inside the with block goes on running, and a thread waiting for a lock
\* that is free again and again does get it; a thread need not call at all
FairLockSpec ==
    /\ LockInit
    /\ [][FairNext]_vars
    /\ \A t \in Threads : WF_vars(FairBody(t)) /\ SF_vars(Acquire(t))

(***************************************************************************)
(* Properties.                                                             *)
(***************************************************************************)
\* the only events so far are among allowed
OnlyEvents(allowed) == events \subseteq allowed

\* the node a call names has neither a row nor a column in m
Unknown(m, node_id) ==
    /\ node_id \notin DOMAIN m
    /\ \A a \in DOMAIN m : node_id \notin DOMAIN m[a]

\* C1: from the empty matrix, while register_node has returned for N distinct ids
\* with no remove_node (and no restart or failed save) since, the matrix holds
\* exactly N * N entries, self-pairs included.
C1_PairCountGrowth ==
    OnlyEvents({"load_error"}) =>
        Cardinality(Entries(matrix)) = Cardinality(registered) * Cardinality(registered)

\* two nodes registered one after the other, no removal: the case N = 2
C1_Witness ==
    /\ OnlyEvents({})
    /\ call.op = "register_node"
    /\ Cardinality(registered) = 2

\* C2: no register_node call changes a score that is already stored, whatever the
\* features it loads: every entry matrix[a][b] of before the call is there, with
\* the same value, after it.
C2_NeverRecomputed ==
    [][call'.op = "register_node" =>
          \A p \in Entries(matrix) :
              /\ p \in Entries(matrix')
              /\ matrix'[p[1]][p[2]] = matrix[p[1]][p[2]]]_vars

\* a register_node has returned for a node whose self-score is not the score of
\* the features now cached: the entry is older than the call and the features differ
C2_Witness ==
    /\ call.op = "register_node"
    /\ call.outcome = "returned"
    /\ <<call.node_id, call.node_id>> \in Entries(matrix)
    /\ matrix[call.node_id][call.node_id] #
          Round4(CombinedScore(frame_cache[Key(call.node_id, "last")],
                               frame_cache[Key(call.node_id, "first")],
                               Get(color_cache, Key(call.node_id, "last")),
                               Get(color_cache, Key(call.node_id, "first"))))

\* C3: after remove_node(X) has returned the matrix has no row X, no row has a
\* column X, and neither cache holds X's first or last side.
C3_RemovalComplete ==
    (call.op = "remove_node" /\ call.outcome = "returned") =>
        /\ Unknown(matrix, call.node_id)
        /\ \A side \in Sides :
              /\ Key(call.node_id, side) \notin DOMAIN frame_cache
              /\ Key(call.node_id, side) \notin DOMAIN color_cache

\* a node has been removed while another one, registered after a first, stays
C3_Witness ==
    /\ call.op = "remove_node"
    /\ call.outcome = "returned"
    /\ calls = 3
    /\ OnlyEvents({"remove"})
    /\ registered # {}
    /\ Entries(matrix) # {}

\* the calls that answer a compatibility query
CompatibilityQueries == {"get_compatible_targets", "get_compatible_sources"}

\* C4: a compatibility query, in either direction and at any threshold in [0, 1],
\* for a node that has neither a row nor a column in the matrix returns the empty
\* list without raising, whatever other nodes the matrix holds.
C4_UnknownNodeQueriesEmpty ==
    (call.op \in CompatibilityQueries /\ Unknown(matrix, call.node_id)) =>
        /\ call.outcome = "returned"
        /\ call.result = {}

\* C5: get_compatible_targets(A, T) returns one result for each B with an entry
\* matrix[A][B] >= T, carrying that score and side 'left', and nothing else; it is
\* empty when A has no row; a higher threshold gives a subset of the results.
C5_TargetsExact ==
    call.op = "get_compatible_targets" =>
        LET A == call.node_id
            T == call.threshold
        IN  /\ A \notin DOMAIN matrix => call.result = {}
            /\ \A r \in call.result :
                  /\ r.side = "left"
                  /\ <<A, r.node_id>> \in Entries(matrix)
                  /\ r.score = matrix[A][r.node_id]
                  /\ r.score >= T
            /\ \A B \in NodeIds :
                  (<<A, B>> \in Entries(matrix) /\ matrix[A][B] >= T) =>
                      Cardinality({r \in call.result : r.node_id = B}) = 1
            /\ \A T2 \in Thresholds :
                  T2 >= T => GetCompatibleTargets(matrix, A, T2) \subseteq call.result

\* a query whose threshold lets one entry of the row through and holds another back
C5_Witness ==
    /\ call.op = "get_compatible_targets"
    /\ call.result # {}
    /\ \E B \in NodeIds :
          /\ <<call.node_id, B>> \in Entries(matrix)
          /\ matrix[call.node_id][B] < call.threshold

\* C6: get_compatible_sources(target, T) returns one result for each O with an
\* entry matrix[O][target] >= T, carrying that score and side 'right', and no
\* result for a row without an entry for target, at every threshold in [0, 1].
C6_SourcesExact ==
    call.op = "get_compatible_sources" =>
        LET target == call.node_id
            T == call.threshold
        IN  /\ \A r \in call.result :
                  /\ r.side = "right"
                  /\ <<r.node_id, target>> \in Entries(matrix)
                  /\ r.score = matrix[r.node_id][target]
                  /\ r.score >= T
            /\ \A O \in NodeIds :
                  (<<O, target>> \in Entries(matrix) /\ matrix[O][target] >= T) =>
                      Cardinality({r \in call.result : r.node_id = O}) = 1

\* the answers of an engine holding matrix m to every query
Answers(m) ==
    [targets |-> [q \in NodeIds \X Thresholds |-> GetCompatibleTargets(m, q[1], q[2])],
     sources |-> [q \in NodeIds \X Thresholds |-> GetCompatibleSources(m, q[1], q[2])],
     full    |-> GetFullMatrix(m)]

\* C7: after a register_node or remove_node that returned, the file holds the
\* in-memory matrix: the engine a restart builds from it has the same matrix and
\* answers every query as the engine before the restart.
C7_PersistedEqualsMemory ==
    (call.op \in {"register_node", "remove_node"} /\ call.outcome = "returned") =>
        /\ cache_file.state = "json"
        /\ LoadMatrix(cache_file) = matrix
        /\ Answers(LoadMatrix(cache_file)) = Answers(matrix)

\* a mutation returned after an earlier save had failed, with scores to persist
C7_Witness ==
    /\ call.op \in {"register_node", "remove_node"}
    /\ call.outcome = "returned"
    /\ "save_error" \in events
    /\ Entries(matrix) # {}

\* C8: from the empty engine, with every load succeeding (and no restart or failed
\* save), after any sequence of register_node and remove_node calls the rows are the
\* registered nodes and the entries are exactly their ordered pairs.
C8_EntriesAreRegisteredPairs ==
    OnlyEvents({"remove"}) =>
        /\ DOMAIN matrix = registered
        /\ Entries(matrix) = registered \X registered

\* register, register, remove: one node is left, with its self-pair
C8_Witness ==
    /\ OnlyEvents({"remove"})
    /\ calls = 3
    /\ call.op = "remove_node"
    /\ call.node_id \notin registered
    /\ Cardinality(registered) = 1
    /\ Cardinality(Entries(matrix)) = 1

\* C9: a register_node given an unreadable frame file raises and leaves the
\* matrix, in memory and on disk, as it was before the call.
C9_FailedRegisterLeavesMatrix ==
    [][(call'.op = "register_node" /\ Unreadable \in {call'.first, call'.last}) =>
          /\ call'.outcome = "FileNotFoundError"
          /\ matrix' = matrix
          /\ cache_file' = cache_file]_vars

\* a registration failed on its last frame, after loading the first, with a matrix to keep
C9_Witness ==
    /\ call.op = "register_node"
    /\ call.outcome = "FileNotFoundError"
    /\ call.first # Unreadable
    /\ call.last = Unreadable
    /\ Entries(matrix) # {}

\* the frame file reload_frame_cache was given for a side
FileOf(c, side) == IF side = "first" THEN c.first ELSE c.last

\* C10: reload_frame_cache returns, and for a side whose frame file is unreadable
\* and that had nothing cached, neither the grayscale nor the colour cache holds
\* an entry afterwards.
C10_WarmUpSoftMiss ==
    [][call'.op = "reload_frame_cache" =>
          /\ call'.outcome = "returned"
          /\ \A side \in Sides :
                (/\ FileOf(call', side) = Unreadable
                 /\ Key(call'.node_id, side) \notin DOMAIN frame_cache
                 /\ Key(call'.node_id, side) \notin DOMAIN color_cache) =>
                    /\ Key(call'.node_id, side) \notin DOMAIN frame_cache'
                    /\ Key(call'.node_id, side) \notin DOMAIN color_cache']_vars

\* C13: every entry register_node stores is the rounded metric of a's last-frame
\* arrays and b's first-frame arrays as cached during the call; matrix[a][b] and
\* matrix[b][a] are scored apart and may differ.
C13_ScoresLastAgainstFirst ==
    [][call'.op = "register_node" =>
          \A p \in Entries(matrix') \ Entries(matrix) :
              matrix'[p[1]][p[2]] =
                  Round4(CombinedScore(frame_cache'[Key(p[1], "last")],
                                       frame_cache'[Key(p[2], "first")],
                                       Get(color_cache', Key(p[1], "last")),
                                       Get(color_cache', Key(p[2], "first"))))]_vars

\* a registration has left two nodes whose scores in the two directions differ
C13_Witness ==
    /\ call.op = "register_node"
    /\ call.outcome = "returned"
    /\ call.first # call.last
    /\ \E a \in NodeIds, b \in NodeIds :
          /\ a # b
          /\ <<a, b>> \in Entries(matrix)
          /\ <<b, a>> \in Entries(matrix)
          /\ matrix[a][b] # matrix[b][a]

\* the cache keys
Keys == NodeIds \X Sides

\* C16: remove_node(id) keeps every entry matrix[a][b] with a # id and b # id and
\* every cache entry of the other nodes, and creates no entry; no call of another
\* engine function leaves the matrix with fewer entries than it had.
C16_RemoveFrame ==
    [][/\ call'.op = "remove_node" =>
            /\ Entries(matrix') \subseteq Entries(matrix)
            /\ \A p \in Entries(matrix) :
                  (p[1] # call'.node_id /\ p[2] # call'.node_id) =>
                      /\ p \in Entries(matrix')
                      /\ matrix'[p[1]][p[2]] = matrix[p[1]][p[2]]
            /\ \A k \in Keys :
                  k[1] # call'.node_id =>
                      /\ Get(frame_cache', k) = Get(frame_cache, k)
                      /\ Get(color_cache', k) = Get(color_cache, k)
       /\ call'.op \notin {"remove_node", "restart"} =>
            Cardinality(Entries(matrix')) >= Cardinality(Entries(matrix))]_vars

\* a removal has left the other node's entry and cached arrays in place
C16_Witness ==
    /\ call.op = "remove_node"
    /\ Entries(matrix) # {}
    /\ \E k \in Keys : k[1] # call.node_id /\ k \in DOMAIN frame_cache
    /\ OnlyEvents({"remove"})
    /\ calls = 3

\* C17: reload_frame_cache, whatever its four loads do, leaves the in-memory
\* matrix and the persisted matrix as they were.
C17_WarmUpLeavesMatrix ==
    [][call'.op = "reload_frame_cache" =>
          /\ matrix' = matrix
          /\ cache_file' = cache_file]_vars

\* after a restart a warm-up has loaded the arrays of a node that has scores
C17_Witness ==
    /\ call.op = "reload_frame_cache"
    /\ "restart" \in events
    /\ <<call.node_id, call.node_id>> \in Entries(matrix)
    /\ Key(call.node_id, "first") \in DOMAIN frame_cache
    /\ Key(call.node_id, "last") \in DOMAIN frame_cache

\* C18: a cached feature entry is neither replaced nor dropped by a later
\* reload_frame_cache or register_node for its key.
C18_CachedEntriesKept ==
    [][call'.op \in {"reload_frame_cache", "register_node"} =>
          \A k \in Keys :
              /\ k \in DOMAIN frame_cache => Get(frame_cache', k) = frame_cache[k]
              /\ k \in DOMAIN color_cache => Get(color_cache', k) = color_cache[k]]_vars

\* C20: every node id that is a column key of some row has a row of its own.
C20_ColumnsHaveRows ==
    \A a \in DOMAIN matrix : DOMAIN matrix[a] \subseteq DOMAIN matrix

\* a removal has left a matrix in which the removed id was a column of the other row
C20_Witness ==
    /\ call.op = "remove_node"
    /\ calls = 3
    /\ OnlyEvents({"remove"})
    /\ Cardinality(DOMAIN matrix) = 1
    /\ call.node_id \notin DOMAIN matrix
    /\ Cardinality(registered) = 1

C15_RegisterFrame ==
    [][call'.op = "register_node" =>
          /\ \A p \in Entries(matrix) :
                /\ p \in Entries(matrix')
                /\ matrix'[p[1]][p[2]] = matrix[p[1]][p[2]]
          /\ \A p \in Entries(matrix') \ Entries(matrix) :
                p[1] = call'.node_id \/ p[2] = call'.node_id]_vars

\* a node was registered while two other nodes, both with rows and both with their
\* features cached, had no entry for each other: they still have none
C15_Witness ==
    /\ call.op = "register_node"
    /\ call.outcome = "returned"
    /\ \E a \in DOMAIN matrix, b \in DOMAIN matrix :
          /\ a # call.node_id
          /\ b # call.node_id
          /\ <<a, b>> \notin Entries(matrix)
          /\ Key(a, "last") \in DOMAIN frame_cache
          /\ Key(b, "first") \in DOMAIN frame_cache
          /\ <<a, call.node_id>> \in Entries(matrix)
          /\ <<call.node_id, b>> \in Entries(matrix)

\* C14: for raw structural and colour values in [-1, 1], the colour arrays given
\* or not, 0.6 * max(0, structural) + 0.4 * max(0, colour) lies in [0, 1], and so
\* does the rounded score that is stored.
C14_ScoreInUnitInterval ==
    sample.score # None =>
        /\ 0 <= sample.score
        /\ sample.score <= 10 * Unit
        /\ 0 <= sample.stored
        /\ sample.stored <= Unit

\* both raw values were negative and the colour arrays given
C14_Witness ==
    /\ sample.score # None
    /\ sample.ssim < 0
    /\ sample.hist < 0
    /\ sample.have_colors

\* every score in the matrix lies in [0, 1] (the consequence of C14 for the engine)
StoredScoresInUnitInterval ==
    \A p \in Entries(matrix) :
        0 <= matrix[p[1]][p[2]] /\ matrix[p[1]][p[2]] <= Unit

\* the threads inside a with block
Inside == {t \in Threads : pc[t] \notin {"idle", "waiting"}}

\* C11: at most one thread is inside the engine at a time; a query reads a matrix
\* that is the one the last completed mutation left; and a mutation that reaches
\* its save has made the whole change of the call to that matrix, so no query
\* sees a registration or a removal part done.
C11_QueriesSeeWholeMutations ==
    /\ Cardinality(Inside) <= 1
    /\ \A t \in Threads :
          /\ pc[t] = "read" => matrix = committed
          /\ pc[t] = "score" /\ Pending(matrix, frame_cache, work[t].node_id) = {} =>
                matrix = RegisterMatrix(committed, frame_cache, color_cache,
                                        work[t].node_id)
          /\ pc[t] = "pop_caches" => matrix = RemoveMatrix(committed, work[t].node_id)

\* a query waits while a registration has written its row and only some entries
C11_Witness ==
    \E t \in Threads, u \in Threads :
        /\ pc[t] = "score"
        /\ Entries(matrix) # Entries(committed)
        /\ Pending(matrix, frame_cache, work[t].node_id) # {}
        /\ pc[u] = "waiting"
        /\ work[u].op \in Queries

\* C19: a thread that holds the lock gives it up, and a thread that waits for the
\* lock gets it, whatever the calls are and however they end.
C19_LockReleasedWaiterRuns ==
    \A t \in Threads :
        /\ (lock = t) ~> (lock # t)
        /\ (pc[t] = "waiting") ~> (lock = t)

\* a thread that called while another held the lock is in its body, and the call
\* that held the lock was a registration that failed
C19_Witness ==
    \E t \in Threads :
        /\ lock = t
        /\ pc[t] \in {"read", "loads"}
        /\ work[t].behind \notin {NoThread, t}
        /\ call.op = "register_node"
        /\ call.outcome \in {"FileNotFoundError", "OSError"}

\* C22: a register_node that raises while loading the new node's frames leaves the
\* grayscale and the colour cache exactly as they were before the call.
C22_FailedLoadLeavesCaches ==
    [][(call'.op = "register_node" /\ call'.outcome = "FileNotFoundError") =>
          /\ frame_cache' = frame_cache
          /\ color_cache' = color_cache]_vars

\* a register_node or remove_node step that reached _save_matrix and did not leave
\* the new matrix in the file
SaveFailed ==
    /\ call'.op \in Mutations
    /\ call'.outcome # "FileNotFoundError"
    /\ cache_file' # Dumps(matrix')

\* what a failed save leaves: the error raised, the mutation kept in memory, and a
\* get_full_matrix that follows returning the mutated matrix
FailedSaveKeepsMutation ==
    /\ SaveFailed =>
          /\ call'.outcome = "OSError"
          /\ matrix' = IF call'.op = "register_node"
                       THEN RegisterMatrix(matrix, frame_cache', color_cache',
                                           call'.node_id)
                       ELSE RemoveMatrix(matrix, call'.node_id)
    /\ (call.outcome = "OSError" /\ call'.op = "get_full_matrix") =>
          call'.dump = matrix

\* C21 as stated: a failed save raises and keeps the mutation in memory for the
\* queries that follow, and a restart loads the last matrix that was written in full.
C21_RestartLoadsLastSaved ==
    [][/\ FailedSaveKeepsMutation
       /\ call'.op = "restart" => matrix' = durable]_vars

\* C21, amended: a failed save raises and keeps the mutation in memory for the
\* queries that follow; a restart loads the last matrix that was written in full
\* when the file is as that write left it, and the empty matrix when a write that
\* broke off left a file that does not parse.
C21_RestartLoadsWhatTheFileHolds ==
    [][/\ FailedSaveKeepsMutation
       /\ call'.op = "restart" =>
             matrix' = IF cache_file = CorruptFile THEN EmptyDict ELSE durable]_vars

\* a restart after a failed save fell back to the matrix written last, and lost a
\* mutation that the memory had
C21_Witness ==
    /\ call.op = "restart"
    /\ "save_error" \in events
    /\ matrix = durable
    /\ Entries(durable) # {}
    /\ registered # DOMAIN matrix

\* C23: after any sequence of upload_videos and delete_node requests, the node ids
\* of the persisted registry are the row keys of the similarity matrix.
C23_RegistryIdsAreMatrixRows ==
    DOMAIN LoadRegistry(registry) = DOMAIN matrix

====
